---- MODULE Spec2Model ----
\* A model of ndjson-stream: the NdjsonEngine (src/src/engine.rs), the pull
\* adapter FallibleNdjsonIter (src/src/driver/iter.rs) and the suspend adapter
\* FallibleNdjsonStream (src/src/driver/streams.rs).
\*
\* Bytes are integers 0..255.  Sequences are 1-based, so an index returned by
\* index_of is the Rust index plus one and 0 stands for Option::None.
\* An Option<X> is a sequence of length 0 (None) or 1 (Some).
EXTENDS Integers, Sequences, FiniteSets, TLC

VARIABLES
    engine,          \* NdjsonEngine { in_queue, out_queue, config }
    bytes_iterator,  \* FallibleNdjsonIter.bytes_iterator : Fuse<I>
    bytes_stream,    \* FallibleNdjsonStream.bytes_stream : S
    src,             \* the items the upstream source was created with (never changes)
    driver,          \* which adapter owns the engine: "iter", "stream" or "none"
    ret,             \* what the last get-next call returned
    asked,           \* number of times the last get-next call queried upstream
    eager,           \* history: upstream was queried while an outcome was queued
    results,         \* history: the returns of the adapter other than Pending
    fed,             \* history: all bytes passed to input() so far, concatenated
    popped,          \* history: the outcomes pop() has returned so far
    nInputs,         \* history: number of input() calls
    finalized        \* history: finalize() has been called

vars == <<engine, bytes_iterator, bytes_stream, src, driver, ret, asked, eager,
          results,
          fed, popped, nInputs, finalized>>

----------------------------------------------------------------------------
\* Bounds

\* longest chunk passed to one input() call of the bare engine
MaxChunk == 2
\* total number of bytes fed to the bare engine
MaxFed == 4
\* number of input() calls on the bare engine
MaxInputs == 3
\* number of items the upstream source of an adapter is created with
MaxUp == 3
\* number of get-next calls on an adapter
MaxCalls == 8

----------------------------------------------------------------------------
\* Bytes

NEW_LINE == 10
CARRIAGE_RETURN == 13

\* '\n', '\r', ' ', '1' and 0xFF (a byte that never occurs in valid UTF-8)
Byte == {NEW_LINE, CARRIAGE_RETURN, 32, 49, 255}

RECURSIVE SeqsUpTo(_, _)
SeqsUpTo(S, n) ==
    IF n = 0 THEN {<<>>}
    ELSE LET shorter == SeqsUpTo(S, n - 1)
         IN  shorter \cup {Append(s, x) : s \in {t \in shorter : Len(t) = n - 1}, x \in S}

Chunks == SeqsUpTo(Byte, MaxChunk)

----------------------------------------------------------------------------
\* Configuration (src/src/config.rs)

EmptyLineHandling == {"ParseAlways", "IgnoreEmpty", "IgnoreBlank"}

NdjsonConfig == [empty_line_handling : EmptyLineHandling, parse_rest : BOOLEAN]

\* #[derive(Default)]: the #[default] variant and bool::default()
default_config == [empty_line_handling |-> "ParseAlways", parse_rest |-> FALSE]

with_empty_line_handling(self, empty_line_handling) ==
    [empty_line_handling |-> empty_line_handling, parse_rest |-> self.parse_rest]

\* with_parse_rest() that fills the other field from the default
\* configuration (..Default::default() in place of ..self)
with_parse_rest_from_default(self, parse_rest) ==
    [empty_line_handling |-> default_config.empty_line_handling,
     parse_rest |-> parse_rest]

with_parse_rest(self, parse_rest) ==
    [empty_line_handling |-> self.empty_line_handling, parse_rest |-> parse_rest]

\* the configurations a caller can build: the default one, with each axis
\* set by its derivation
Configs ==
    {with_parse_rest(with_empty_line_handling(default_config, e), p) :
        e \in EmptyLineHandling, p \in BOOLEAN}

----------------------------------------------------------------------------
\* The decoder and the text functions the engine calls

\* char::is_whitespace on the characters the model's bytes can form
is_whitespace(b) == b \in {9, 10, 11, 12, 13, 32}

\* str::from_utf8(bytes).is_ok(): every byte of the model is ASCII except
\* 0xFF, which makes any sequence invalid
from_utf8_is_ok(bytes) == \A i \in 1..Len(bytes) : bytes[i] < 128

\* the whitespace serde_json skips around a value
json_whitespace(b) == b \in {9, 10, 13, 32}

\* serde_json::from_slice for an unsigned number: optional whitespace, one or
\* more digits, optional whitespace, end of input.  The outcome carries the
\* bytes it was decoded from.
from_slice(bytes) ==
    LET digits == {i \in 1..Len(bytes) : ~json_whitespace(bytes[i])}
        valid  == /\ digits # {}
                  /\ \A i \in digits : bytes[i] \in 48..57
                  /\ \A i, j \in digits : \A k \in i..j : k \in digits
    IN  [ok |-> valid, bytes |-> bytes]

----------------------------------------------------------------------------
\* The engine (src/src/engine.rs)

index_of(data, search) ==
    IF \E i \in 1..Len(data) : data[i] = search
    THEN CHOOSE i \in 1..Len(data) :
            /\ data[i] = search
            /\ \A j \in 1..(i - 1) : data[j] # search
    ELSE 0

with_config(config) == [in_queue |-> <<>>, out_queue |-> <<>>, config |-> config]

new == with_config(default_config)

is_blank(string) == \A i \in 1..Len(string) : is_whitespace(string[i])

\* parse_line() whose IgnoreEmpty skips the zero-length candidate only
parse_line_empty_only(bytes, empty_line_handling) ==
    LET should_ignore ==
            CASE empty_line_handling = "ParseAlways" -> FALSE
              [] empty_line_handling = "IgnoreEmpty" -> bytes = <<>>
              [] empty_line_handling = "IgnoreBlank" ->
                    from_utf8_is_ok(bytes) /\ is_blank(bytes)
    IN  IF should_ignore THEN <<>> ELSE <<from_slice(bytes)>>

\* parse_line() whose IgnoreBlank drops the bytes that are not valid text
\* before it looks for whitespace (a lossy conversion)
parse_line_blank_lossy(bytes, empty_line_handling) ==
    LET should_ignore ==
            CASE empty_line_handling = "ParseAlways" -> FALSE
              [] empty_line_handling = "IgnoreEmpty" ->
                    bytes = <<>> \/ bytes = <<CARRIAGE_RETURN>>
              [] empty_line_handling = "IgnoreBlank" ->
                    \A i \in 1..Len(bytes) : bytes[i] >= 128 \/ is_whitespace(bytes[i])
    IN  IF should_ignore THEN <<>> ELSE <<from_slice(bytes)>>

\* parse_line() that applies IgnoreEmpty where ParseAlways is configured
parse_line_always_as_empty(bytes, empty_line_handling) ==
    LET should_ignore ==
            CASE empty_line_handling \in {"ParseAlways", "IgnoreEmpty"} ->
                    bytes = <<>> \/ bytes = <<CARRIAGE_RETURN>>
              [] empty_line_handling = "IgnoreBlank" ->
                    from_utf8_is_ok(bytes) /\ is_blank(bytes)
    IN  IF should_ignore THEN <<>> ELSE <<from_slice(bytes)>>

parse_line(bytes, empty_line_handling) ==
    LET should_ignore ==
            CASE empty_line_handling = "ParseAlways" -> FALSE
              [] empty_line_handling = "IgnoreEmpty" ->
                    bytes = <<>> \/ bytes = <<CARRIAGE_RETURN>>
              [] empty_line_handling = "IgnoreBlank" ->
                    from_utf8_is_ok(bytes) /\ is_blank(bytes)
    IN  IF should_ignore THEN <<>> ELSE <<from_slice(bytes)>>

\* input() that decodes only the bytes of the current chunk, forgetting the
\* bytes buffered by earlier calls
RECURSIVE input_forgets_buffer(_, _)
input_forgets_buffer(self, data) ==
    LET newline_idx == index_of(data, NEW_LINE)
    IN  IF newline_idx = 0
        THEN [self EXCEPT !.in_queue = @ \o data]
        ELSE LET data_until_split == SubSeq(data, 1, newline_idx - 1)
                 item == parse_line(data_until_split, self.config.empty_line_handling)
             IN  input_forgets_buffer(
                       [self EXCEPT !.out_queue = @ \o item, !.in_queue = <<>>],
                       SubSeq(data, newline_idx + 1, Len(data)))

\* input() that never discards the bytes of a completed line: it leaves them
\* in the buffer with their newline
RECURSIVE input_buffers_lines(_, _)
input_buffers_lines(self, data) ==
    LET newline_idx == index_of(data, NEW_LINE)
    IN  IF newline_idx = 0
        THEN [self EXCEPT !.in_queue = @ \o data]
        ELSE LET data_until_split == SubSeq(data, 1, newline_idx - 1)
                 next_item_bytes == self.in_queue \o data_until_split
                 item == parse_line(next_item_bytes, self.config.empty_line_handling)
             IN  input_buffers_lines(
                       [self EXCEPT !.out_queue = @ \o item,
                                    !.in_queue = @ \o SubSeq(data, 1, newline_idx)],
                       SubSeq(data, newline_idx + 1, Len(data)))

\* input() that strips a trailing \r from a line before it is decoded
RECURSIVE input_trims_cr(_, _)
input_trims_cr(self, data) ==
    LET newline_idx == index_of(data, NEW_LINE)
    IN  IF newline_idx = 0
        THEN [self EXCEPT !.in_queue = @ \o data]
        ELSE LET data_until_split == SubSeq(data, 1, newline_idx - 1)
                 next_item_bytes == self.in_queue \o data_until_split
                 trimmed ==
                     IF next_item_bytes # <<>>
                        /\ next_item_bytes[Len(next_item_bytes)] = CARRIAGE_RETURN
                     THEN SubSeq(next_item_bytes, 1, Len(next_item_bytes) - 1)
                     ELSE next_item_bytes
                 item == parse_line(trimmed, self.config.empty_line_handling)
             IN  input_trims_cr(
                       [self EXCEPT !.out_queue = @ \o item, !.in_queue = <<>>],
                       SubSeq(data, newline_idx + 1, Len(data)))

\* input() that puts each outcome at the head of the queue (push_front)
RECURSIVE input_pushes_front(_, _)
input_pushes_front(self, data) ==
    LET newline_idx == index_of(data, NEW_LINE)
    IN  IF newline_idx = 0
        THEN [self EXCEPT !.in_queue = @ \o data]
        ELSE LET data_until_split == SubSeq(data, 1, newline_idx - 1)
                 next_item_bytes == self.in_queue \o data_until_split
                 item == parse_line(next_item_bytes, self.config.empty_line_handling)
             IN  input_pushes_front(
                       [self EXCEPT !.out_queue = item \o @, !.in_queue = <<>>],
                       SubSeq(data, newline_idx + 1, Len(data)))

\* input() that, for a chunk without a newline, replaces the buffer by the
\* chunk
RECURSIVE input_replaces_buffer(_, _)
input_replaces_buffer(self, data) ==
    LET newline_idx == index_of(data, NEW_LINE)
    IN  IF newline_idx = 0
        THEN [self EXCEPT !.in_queue = data]
        ELSE LET data_until_split == SubSeq(data, 1, newline_idx - 1)
                 next_item_bytes == self.in_queue \o data_until_split
                 item == parse_line(next_item_bytes, self.config.empty_line_handling)
             IN  input_replaces_buffer(
                       [self EXCEPT !.out_queue = @ \o item, !.in_queue = <<>>],
                       SubSeq(data, newline_idx + 1, Len(data)))

\* input() that clears the buffer only after a line that decoded
RECURSIVE input_keeps_failed_line(_, _)
input_keeps_failed_line(self, data) ==
    LET newline_idx == index_of(data, NEW_LINE)
    IN  IF newline_idx = 0
        THEN [self EXCEPT !.in_queue = @ \o data]
        ELSE LET data_until_split == SubSeq(data, 1, newline_idx - 1)
                 next_item_bytes == self.in_queue \o data_until_split
                 item == parse_line(next_item_bytes, self.config.empty_line_handling)
                 failed == item # <<>> /\ ~item[1].ok
             IN  input_keeps_failed_line(
                       [self EXCEPT !.out_queue = @ \o item,
                                    !.in_queue = IF failed THEN next_item_bytes ELSE <<>>],
                       SubSeq(data, newline_idx + 1, Len(data)))

RECURSIVE input(_, _)
input(self, data) ==
    LET newline_idx == index_of(data, NEW_LINE)
    IN  IF newline_idx = 0
        THEN [self EXCEPT !.in_queue = @ \o data]
        ELSE LET data_until_split == SubSeq(data, 1, newline_idx - 1)
                 next_item_bytes ==
                     IF self.in_queue = <<>>
                     THEN data_until_split
                     ELSE self.in_queue \o data_until_split
                 item == parse_line(next_item_bytes, self.config.empty_line_handling)
             IN  input([self EXCEPT !.out_queue = @ \o item, !.in_queue = <<>>],
                       SubSeq(data, newline_idx + 1, Len(data)))

\* finalize() that applies the configured policy as it is, ParseAlways included
finalize_no_downgrade(self) ==
    IF self.config.parse_rest
    THEN LET item == parse_line(self.in_queue, self.config.empty_line_handling)
         IN  [self EXCEPT !.out_queue = @ \o item, !.in_queue = <<>>]
    ELSE [self EXCEPT !.in_queue = <<>>]

\* finalize() that puts the outcome of the rest at the head of the queue
finalize_pushes_front(self) ==
    IF self.config.parse_rest
    THEN LET empty_line_handling ==
                 IF self.config.empty_line_handling = "ParseAlways"
                 THEN "IgnoreEmpty"
                 ELSE self.config.empty_line_handling
             item == parse_line(self.in_queue, empty_line_handling)
         IN  [self EXCEPT !.out_queue = item \o @, !.in_queue = <<>>]
    ELSE [self EXCEPT !.in_queue = <<>>]

\* finalize() that decodes the rest and leaves it in the buffer
finalize_keeps_rest(self) ==
    IF self.config.parse_rest
    THEN LET empty_line_handling ==
                 IF self.config.empty_line_handling = "ParseAlways"
                 THEN "IgnoreEmpty"
                 ELSE self.config.empty_line_handling
             item == parse_line(self.in_queue, empty_line_handling)
         IN  [self EXCEPT !.out_queue = @ \o item]
    ELSE self

\* finalize() that decodes the rest whatever the rest-handling flag says
finalize_ignores_flag(self) ==
    LET empty_line_handling ==
            IF self.config.empty_line_handling = "ParseAlways"
            THEN "IgnoreEmpty"
            ELSE self.config.empty_line_handling
        item == parse_line(self.in_queue, empty_line_handling)
    IN  [self EXCEPT !.out_queue = @ \o item, !.in_queue = <<>>]

finalize(self) ==
    IF self.config.parse_rest
    THEN LET empty_line_handling ==
                 IF self.config.empty_line_handling = "ParseAlways"
                 THEN "IgnoreEmpty"
                 ELSE self.config.empty_line_handling
             item == parse_line(self.in_queue, empty_line_handling)
         IN  [self EXCEPT !.out_queue = @ \o item, !.in_queue = <<>>]
    ELSE [self EXCEPT !.in_queue = <<>>]

\* pop() that returns the oldest outcome and leaves it in the queue
pop_peeks(self) ==
    IF self.out_queue = <<>>
    THEN [ret |-> <<>>, engine |-> self]
    ELSE [ret |-> <<Head(self.out_queue)>>, engine |-> self]

\* pop() that takes the newest outcome (pop_back)
pop_newest(self) ==
    IF self.out_queue = <<>>
    THEN [ret |-> <<>>, engine |-> self]
    ELSE [ret |-> <<self.out_queue[Len(self.out_queue)]>>,
          engine |-> [self EXCEPT !.out_queue = SubSeq(@, 1, Len(@) - 1)]]

\* pop() returns the pair of the Option it returns and the engine it leaves
pop(self) ==
    IF self.out_queue = <<>>
    THEN [ret |-> <<>>, engine |-> self]
    ELSE [ret |-> <<Head(self.out_queue)>>,
          engine |-> [self EXCEPT !.out_queue = Tail(@)]]

----------------------------------------------------------------------------
\* The bare engine, driven by a caller

\* no upstream iterator
NoUpstream == [iter |-> <<>>, done |-> FALSE]

NoCall == [tag |-> "NoCall", bytes |-> <<>>, error |-> 0]

InitEngine ==
    /\ engine \in {with_config(c) : c \in Configs}
    /\ bytes_iterator = NoUpstream
    /\ bytes_stream = <<>>
    /\ src = <<>>
    /\ driver = "none"
    /\ ret = NoCall
    /\ asked = 0
    /\ eager = FALSE
    /\ results = <<>>
    /\ fed = <<>>
    /\ popped = <<>>
    /\ nInputs = 0
    /\ finalized = FALSE

Input ==
    \E data \in Chunks :
        /\ nInputs < MaxInputs
        /\ Len(fed) + Len(data) <= MaxFed
        /\ engine' = input(engine, data)
        /\ fed' = fed \o data
        /\ nInputs' = nInputs + 1
        /\ UNCHANGED <<bytes_iterator, bytes_stream, src, driver, ret, asked, eager,
                   results,
                       popped, finalized>>

Finalize ==
    /\ engine' = finalize(engine)
    /\ finalized' = TRUE
    /\ UNCHANGED <<bytes_iterator, bytes_stream, src, driver, ret, asked, eager,
                   results,
                   fed, popped, nInputs>>

Pop ==
    /\ engine' = pop(engine).engine
    /\ popped' = popped \o pop(engine).ret
    /\ UNCHANGED <<bytes_iterator, bytes_stream, src, driver, ret, asked, eager,
                   results,
                   fed, nInputs, finalized>>

NextEngine == Input \/ Finalize \/ Pop

SpecEngine == InitEngine /\ [][NextEngine]_vars

----------------------------------------------------------------------------
\* The upstream source of an adapter: a sequence of items, each a chunk, an
\* error or an end of input

\* the error values an upstream source can report
UpErrors == {1, 2}

\* the chunks an upstream source can yield: nothing, the start of a line, a
\* blank start of a line, the end of a line, a whole line, two empty lines
UpChunks == {<<>>, <<49>>, <<32>>, <<NEW_LINE>>, <<49, NEW_LINE>>, <<NEW_LINE, NEW_LINE>>}

OkItem(bytes) == [tag |-> "Ok", bytes |-> bytes, error |-> 0]
ErrItem(error) == [tag |-> "Err", bytes |-> <<>>, error |-> error]
\* the source reports end of input (None, Poll::Ready(None)).  A source that
\* is not fused can yield items again afterwards, so this item can stand
\* anywhere in a source; a source with no item left reports end of input.
NoneItem == [tag |-> "None", bytes |-> <<>>, error |-> 0]

UpItems ==
    {OkItem(b) : b \in UpChunks} \cup {ErrItem(e) : e \in UpErrors} \cup {NoneItem}

UpSources == SeqsUpTo(UpItems, MaxUp)

\* I::next, and S::poll_next when the source is ready
inner_next(items) ==
    IF items = <<>>
    THEN [item |-> NoneItem, rest |-> <<>>]
    ELSE [item |-> Head(items), rest |-> Tail(items)]

----------------------------------------------------------------------------
\* Results of the adapters (src/src/fallible.rs)

OkResult(value) == [tag |-> "Ok", bytes |-> value.bytes, error |-> 0]
JsonError(error) == [tag |-> "JsonError", bytes |-> error.bytes, error |-> 0]
InputError(error) == [tag |-> "InputError", bytes |-> <<>>, error |-> error]
NoneResult == [tag |-> "None", bytes |-> <<>>, error |-> 0]
Pending == [tag |-> "Pending", bytes |-> <<>>, error |-> 0]

\* Ok(value) => Ok(value), Err(error) => Err(FallibleNdjsonError::JsonError(error))
map_json_result(result) == IF result.ok THEN OkResult(result) ELSE JsonError(result)

----------------------------------------------------------------------------
\* The pull adapter (src/src/driver/iter.rs)

\* an iterator adapter that does not latch: it queries the wrapped iterator on
\* every call
fuse_next_unfused(self) ==
    LET n == inner_next(self.bytes_iterator.iter)
    IN  [item |-> n.item,
         self |-> [self EXCEPT
                     !.bytes_iterator = [iter |-> n.rest,
                                         done |-> n.item.tag = "None"],
                     !.asked = @ + 1,
                     !.eager = @ \/ self.engine.out_queue # <<>>]]

\* Fuse<I>::next: once the wrapped iterator has returned None it is not
\* queried again
fuse_next(self) ==
    IF self.bytes_iterator.done
    THEN [item |-> NoneItem, self |-> self]
    ELSE LET n == inner_next(self.bytes_iterator.iter)
         IN  [item |-> n.item,
              self |-> [self EXCEPT
                          !.bytes_iterator = [iter |-> n.rest,
                                              done |-> n.item.tag = "None"],
                          !.asked = @ + 1,
                          !.eager = @ \/ self.engine.out_queue # <<>>]]

\* next() that starts the engine afresh when upstream reports an error
RECURSIVE next_resets_on_error(_)
next_resets_on_error(self) ==
    LET result == pop(self.engine)
    IN  IF result.ret # <<>>
        THEN [self |-> [self EXCEPT !.engine = result.engine],
              ret |-> map_json_result(result.ret[1])]
        ELSE LET n == fuse_next(self)
             IN  CASE n.item.tag = "Ok" ->
                        next_resets_on_error([n.self EXCEPT
                                !.engine = input(self.engine, n.item.bytes),
                                !.fed = @ \o n.item.bytes])
                   [] n.item.tag = "Err" ->
                        [self |-> [n.self EXCEPT
                                     !.engine = with_config(self.engine.config)],
                         ret |-> InputError(n.item.error)]
                   [] n.item.tag = "None" ->
                        LET last == pop(finalize(self.engine))
                        IN  [self |-> [n.self EXCEPT !.engine = last.engine,
                                                     !.finalized = TRUE],
                             ret |-> IF last.ret = <<>>
                                     THEN NoneResult
                                     ELSE map_json_result(last.ret[1])]

\* next() that asks upstream for an item before it looks at the queue
RECURSIVE next_pulls_first(_)
next_pulls_first(self) ==
    LET n == fuse_next(self)
        fedSelf == CASE n.item.tag = "Ok" ->
                          [n.self EXCEPT !.engine = input(self.engine, n.item.bytes),
                                         !.fed = @ \o n.item.bytes]
                     [] n.item.tag = "None" ->
                          [n.self EXCEPT !.engine = finalize(self.engine),
                                         !.finalized = TRUE]
                     [] OTHER -> n.self
        result == pop(fedSelf.engine)
    IN  IF n.item.tag = "Err"
        THEN [self |-> n.self, ret |-> InputError(n.item.error)]
        ELSE IF result.ret # <<>>
        THEN [self |-> [fedSelf EXCEPT !.engine = result.engine],
              ret |-> map_json_result(result.ret[1])]
        ELSE IF n.item.tag = "None"
        THEN [self |-> fedSelf, ret |-> NoneResult]
        ELSE next_pulls_first(fedSelf)

\* next() that leaves an item that is an error in the upstream, to be met
\* again by the next call
RECURSIVE next_retries_error(_)
next_retries_error(self) ==
    LET result == pop(self.engine)
    IN  IF result.ret # <<>>
        THEN [self |-> [self EXCEPT !.engine = result.engine],
              ret |-> map_json_result(result.ret[1])]
        ELSE LET n == fuse_next(self)
             IN  CASE n.item.tag = "Ok" ->
                        next_retries_error([n.self EXCEPT
                                !.engine = input(self.engine, n.item.bytes),
                                !.fed = @ \o n.item.bytes])
                   [] n.item.tag = "Err" ->
                        [self |-> [n.self EXCEPT !.bytes_iterator = self.bytes_iterator],
                         ret |-> InputError(n.item.error)]
                   [] n.item.tag = "None" ->
                        LET last == pop(finalize(self.engine))
                        IN  [self |-> [n.self EXCEPT !.engine = last.engine,
                                                     !.finalized = TRUE],
                             ret |-> IF last.ret = <<>>
                                     THEN NoneResult
                                     ELSE map_json_result(last.ret[1])]

\* next() that reports exhaustion when a chunk gave no outcome
next_stops_when_idle(self) ==
    LET result == pop(self.engine)
    IN  IF result.ret # <<>>
        THEN [self |-> [self EXCEPT !.engine = result.engine],
              ret |-> map_json_result(result.ret[1])]
        ELSE LET n == fuse_next(self)
             IN  CASE n.item.tag = "Ok" ->
                        LET fedEngine == input(self.engine, n.item.bytes)
                            first == pop(fedEngine)
                        IN  [self |-> [n.self EXCEPT !.engine = first.engine,
                                                     !.fed = @ \o n.item.bytes],
                             ret |-> IF first.ret = <<>>
                                     THEN NoneResult
                                     ELSE map_json_result(first.ret[1])]
                   [] n.item.tag = "Err" ->
                        [self |-> n.self, ret |-> InputError(n.item.error)]
                   [] n.item.tag = "None" ->
                        LET last == pop(finalize(self.engine))
                        IN  [self |-> [n.self EXCEPT !.engine = last.engine,
                                                     !.finalized = TRUE],
                             ret |-> IF last.ret = <<>>
                                     THEN NoneResult
                                     ELSE map_json_result(last.ret[1])]

\* FallibleNdjsonIter::next on the adapter state
\* self = [engine, bytes_iterator, bytes_stream, asked, eager, fed, finalized]
\* (the state a call starts in is bound once, in the set {self_}, so that it
\* is not computed anew at each of its uses)
RECURSIVE next(_)
next(self_) ==
    LET call(self) ==
            LET result == pop(self.engine)
            IN  IF result.ret # <<>>
                THEN [self |-> [self EXCEPT !.engine = result.engine],
                      ret |-> map_json_result(result.ret[1])]
                ELSE LET n == fuse_next(self)
                     IN  CASE n.item.tag = "Ok" ->
                                next([n.self EXCEPT
                                        !.engine = input(self.engine, n.item.bytes),
                                        !.fed = @ \o n.item.bytes])
                           [] n.item.tag = "Err" ->
                                [self |-> n.self, ret |-> InputError(n.item.error)]
                           [] n.item.tag = "None" ->
                                LET last == pop(finalize(self.engine))
                                IN  [self |-> [n.self EXCEPT !.engine = last.engine,
                                                             !.finalized = TRUE],
                                     ret |-> IF last.ret = <<>>
                                             THEN NoneResult
                                             ELSE map_json_result(last.ret[1])]
    IN  CHOOSE r \in {call(self) : self \in {self_}} : TRUE

----------------------------------------------------------------------------
\* The suspend adapter (src/src/driver/streams.rs)

\* poll_next() that polls the upstream before it looks at the queue, and
\* returns Pending when the upstream is pending
RECURSIVE poll_next_pending_first(_, _)
poll_next_pending_first(self, ready) ==
    LET result == pop(self.engine)
    IN  IF ready = 0
        THEN [self |-> [self EXCEPT !.asked = @ + 1,
                                    !.eager = @ \/ self.engine.out_queue # <<>>],
              ret |-> Pending]
        ELSE IF result.ret # <<>>
        THEN [self |-> [self EXCEPT !.engine = result.engine],
              ret |-> map_json_result(result.ret[1])]
        ELSE LET n == inner_next(self.bytes_stream)
                 polled == [self EXCEPT !.bytes_stream = n.rest,
                                        !.asked = @ + 1,
                                        !.eager = @ \/ self.engine.out_queue # <<>>]
             IN  CASE n.item.tag = "Ok" ->
                        poll_next_pending_first([polled EXCEPT
                                     !.engine = input(self.engine, n.item.bytes),
                                     !.fed = @ \o n.item.bytes],
                                  ready - 1)
                   [] n.item.tag = "Err" ->
                        [self |-> polled, ret |-> InputError(n.item.error)]
                   [] n.item.tag = "None" ->
                        [self |-> polled, ret |-> NoneResult]

\* poll_next() that loses the bytes buffered in the engine when it returns
\* Pending
RECURSIVE poll_next_drops_on_pending(_, _)
poll_next_drops_on_pending(self, ready) ==
    LET result == pop(self.engine)
    IN  IF result.ret # <<>>
        THEN [self |-> [self EXCEPT !.engine = result.engine],
              ret |-> map_json_result(result.ret[1])]
        ELSE IF ready = 0
        THEN [self |-> [self EXCEPT !.asked = @ + 1,
                                    !.engine.in_queue = <<>>,
                                    !.eager = @ \/ self.engine.out_queue # <<>>],
              ret |-> Pending]
        ELSE LET n == inner_next(self.bytes_stream)
                 polled == [self EXCEPT !.bytes_stream = n.rest,
                                        !.asked = @ + 1,
                                        !.eager = @ \/ self.engine.out_queue # <<>>]
             IN  CASE n.item.tag = "Ok" ->
                        poll_next_drops_on_pending([polled EXCEPT
                                     !.engine = input(self.engine, n.item.bytes),
                                     !.fed = @ \o n.item.bytes],
                                  ready - 1)
                   [] n.item.tag = "Err" ->
                        [self |-> polled, ret |-> InputError(n.item.error)]
                   [] n.item.tag = "None" ->
                        [self |-> polled, ret |-> NoneResult]

\* FallibleNdjsonStream::poll_next on the adapter state
\* self = [engine, bytes_iterator, bytes_stream, asked, eager, fed, finalized];
\* ready is the number of polls of bytes_stream that find it ready from now
\* on: the poll after them finds it pending
RECURSIVE poll_next(_, _)
poll_next(self, ready) ==
    LET result == pop(self.engine)
    IN  IF result.ret # <<>>
        THEN [self |-> [self EXCEPT !.engine = result.engine],
              ret |-> map_json_result(result.ret[1])]
        ELSE IF ready = 0
        THEN [self |-> [self EXCEPT !.asked = @ + 1,
                                    !.eager = @ \/ self.engine.out_queue # <<>>],
              ret |-> Pending]
        ELSE LET n == inner_next(self.bytes_stream)
                 polled == [self EXCEPT !.bytes_stream = n.rest,
                                        !.asked = @ + 1,
                                        !.eager = @ \/ self.engine.out_queue # <<>>]
             IN  CASE n.item.tag = "Ok" ->
                        poll_next([polled EXCEPT
                                     !.engine = input(self.engine, n.item.bytes),
                                     !.fed = @ \o n.item.bytes],
                                  ready - 1)
                   [] n.item.tag = "Err" ->
                        [self |-> polled, ret |-> InputError(n.item.error)]
                   [] n.item.tag = "None" ->
                        [self |-> polled, ret |-> NoneResult]

----------------------------------------------------------------------------
\* The adapters, driven by a consumer

\* the adapter state a get-next call starts in
Self ==
    [engine |-> engine, bytes_iterator |-> bytes_iterator,
     bytes_stream |-> bytes_stream, asked |-> 0, eager |-> eager, fed |-> fed,
     finalized |-> finalized]

\* the call returned r_
Returns(r_) ==
  \E r \in {r_} :
    /\ engine' = r.self.engine
    /\ bytes_iterator' = r.self.bytes_iterator
    /\ bytes_stream' = r.self.bytes_stream
    /\ asked' = r.self.asked
    /\ eager' = r.self.eager
    /\ fed' = r.self.fed
    /\ finalized' = r.self.finalized
    /\ ret' = r.ret
    /\ results' = IF r.ret = Pending THEN results ELSE Append(results, r.ret)
    /\ UNCHANGED <<src, driver, popped, nInputs>>

InitAdapter ==
    /\ engine \in {with_config(c) : c \in Configs}
    /\ src \in UpSources
    /\ ret = NoCall
    /\ asked = 0
    /\ eager = FALSE
    /\ results = <<>>
    /\ fed = <<>>
    /\ popped = <<>>
    /\ nInputs = 0
    /\ finalized = FALSE

\* from_fallible_iter_with_config
InitIter ==
    /\ InitAdapter
    /\ driver = "iter"
    /\ bytes_iterator = [iter |-> src, done |-> FALSE]
    /\ bytes_stream = <<>>

IterNext ==
    /\ driver = "iter"
    /\ Len(results) < MaxCalls
    /\ Returns(next(Self))

SpecIter == InitIter /\ [][IterNext]_vars

\* the consumer keeps calling next() (as a for loop or collect() does)
SpecIterFair == SpecIter /\ WF_vars(IterNext)

\* from_fallible_stream_with_config
InitStream ==
    /\ InitAdapter
    /\ driver = "stream"
    /\ bytes_iterator = NoUpstream
    /\ bytes_stream = src

PollNext ==
    /\ driver = "stream"
    /\ Len(results) < MaxCalls
    /\ \E ready \in 0..(Len(bytes_stream) + 1) : Returns(poll_next(Self, ready))

SpecStream == InitStream /\ [][PollNext]_vars

\* either adapter
InitDriver == InitIter \/ InitStream

NextDriver == IterNext \/ PollNext

SpecDriver == InitDriver /\ [][NextDriver]_vars

----------------------------------------------------------------------------
\* The adapters over an infallible upstream: NdjsonIter (src/src/driver/iter.rs)
\* and NdjsonStream (src/src/driver/streams.rs)

\* an item of an infallible source: a chunk as it is, not a Result
PlainItem(bytes) == [tag |-> "Chunk", bytes |-> bytes, error |-> 0]

PlainItems == {PlainItem(b) : b \in UpChunks} \cup {NoneItem}

PlainSources == SeqsUpTo(PlainItems, MaxUp)

\* MapResultInfallible that takes an empty chunk for the end of the input
MapResultInfallible_ends_on_empty(inner) ==
    [k \in 1..Len(inner) |->
        IF inner[k].tag = "None" \/ inner[k].bytes = <<>>
        THEN NoneItem
        ELSE OkItem(inner[k].bytes)]

\* MapResultInfallible<I>: yields inner.next().map(Ok), so the items it
\* yields are the items of inner, each chunk wrapped in Ok
MapResultInfallible(inner) ==
    [k \in 1..Len(inner) |->
        IF inner[k].tag = "None" THEN NoneItem ELSE OkItem(inner[k].bytes)]

\* a JsonResult<T> as NdjsonIter and NdjsonStream yield it
PlainOk(result) == [tag |-> "Ok", bytes |-> result.bytes, error |-> 0]
PlainErr(bytes) == [tag |-> "Err", bytes |-> bytes, error |-> 0]
\* the arm `match err { }` of unwrap_json_error, which no value can reach
Unreachable == [tag |-> "Unreachable", bytes |-> <<>>, error |-> 0]

\* FallibleNdjsonError<Infallible>::unwrap_json_error, on an Err result
unwrap_json_error(result) ==
    CASE result.tag = "JsonError" -> PlainErr(result.bytes)
      [] result.tag = "InputError" -> Unreachable

\* Option/Poll::map(|res| res.map_err(unwrap_json_error))
map_err_unwrap(result) ==
    CASE result.tag = "Ok" -> PlainOk(result)
      [] result.tag \in {"None", "Pending"} -> result
      [] OTHER -> unwrap_json_error(result)

\* NdjsonIter::next
ndjson_iter_next(self) ==
    LET r == next(self)
    IN  [self |-> r.self, ret |-> map_err_unwrap(r.ret)]

\* NdjsonStream::poll_next
ndjson_stream_poll_next(self, ready) ==
    LET inner_next_ == poll_next(self, ready)
    IN  [self |-> inner_next_.self, ret |-> map_err_unwrap(inner_next_.ret)]

InitPlain ==
    /\ engine \in {with_config(c) : c \in Configs}
    /\ src \in PlainSources
    /\ ret = NoCall
    /\ asked = 0
    /\ eager = FALSE
    /\ results = <<>>
    /\ fed = <<>>
    /\ popped = <<>>
    /\ nInputs = 0
    /\ finalized = FALSE

\* from_iter_with_config
InitPlainIter ==
    /\ InitPlain
    /\ driver = "plain_iter"
    /\ bytes_iterator = [iter |-> MapResultInfallible(src), done |-> FALSE]
    /\ bytes_stream = <<>>

\* from_stream_with_config
InitPlainStream ==
    /\ InitPlain
    /\ driver = "plain_stream"
    /\ bytes_iterator = NoUpstream
    /\ bytes_stream = MapResultInfallible(src)

PlainIterNext ==
    /\ driver = "plain_iter"
    /\ Len(results) < MaxCalls
    /\ Returns(ndjson_iter_next(Self))

PlainPollNext ==
    /\ driver = "plain_stream"
    /\ Len(results) < MaxCalls
    /\ \E ready \in 0..(Len(bytes_stream) + 1) :
          Returns(ndjson_stream_poll_next(Self, ready))

InitInfallible == InitPlainIter \/ InitPlainStream

NextInfallible == PlainIterNext \/ PlainPollNext

SpecInfallible == InitInfallible /\ [][NextInfallible]_vars

----------------------------------------------------------------------------
\* Lines of a byte sequence, read off the positions of its newline bytes

Newlines(bytes) == {i \in 1..Len(bytes) : bytes[i] = NEW_LINE}

Max(S) == CHOOSE m \in S : \A x \in S : x <= m

\* the bytes between the newline at position i and the newline before it
LineAt(bytes, i) ==
    SubSeq(bytes, Max({j \in Newlines(bytes) : j < i} \cup {0}) + 1, i - 1)

\* the newline-terminated lines of bytes, in the order of their newlines
Lines(bytes) ==
    LET nth(k) == CHOOSE i \in Newlines(bytes) :
                     Cardinality({j \in Newlines(bytes) : j <= i}) = k
    IN  [k \in 1..Cardinality(Newlines(bytes)) |-> LineAt(bytes, nth(k))]

\* the bytes after the last newline
Rest(bytes) == SubSeq(bytes, Max(Newlines(bytes) \cup {0}) + 1, Len(bytes))

RECURSIVE Flatten(_)
Flatten(seqs) == IF seqs = <<>> THEN <<>> ELSE Head(seqs) \o Flatten(Tail(seqs))

\* the outcomes of the lines of bytes under a policy, line by line
LineOutcomes(bytes, empty_line_handling) ==
    Flatten([k \in 1..Len(Lines(bytes)) |->
                parse_line(Lines(bytes)[k], empty_line_handling)])

\* every outcome the engine has queued so far, popped or not
Queued == popped \o engine.out_queue

----------------------------------------------------------------------------
\* C1: feeding a byte sequence to a fresh engine chunk by chunk leaves the
\* same outcomes (popped or still queued) and the same accumulation buffer as
\* feeding the whole sequence in one input() call, under every configuration.
ChunkSplitInvariance ==
    ~finalized =>
        LET whole == input(with_config(engine.config), fed)
        IN  /\ Queued = whole.out_queue
            /\ engine.in_queue = whole.in_queue

\* a line of three bytes arrived in at least two chunks, after an empty chunk
\* or one byte at a time, and bytes of the next line are buffered
ChunkSplitWitness ==
    /\ ~finalized
    /\ fed = <<49, 49, NEW_LINE, 49>>
    /\ nInputs = MaxInputs
    /\ Len(Queued) = 1
    /\ engine.in_queue = <<49>>

\* C3: a line whose decode fails gives exactly one error outcome, and every
\* later line that is not skipped gives the outcome of decoding its own bytes
\* only, whether it lies in the same chunk or spans later chunks.
ErrorsAreLocal ==
    ~finalized =>
        LET lines == Lines(fed)
            kept(k) == parse_line(lines[k], engine.config.empty_line_handling) # <<>>
            pos(k) == Cardinality({j \in 1..k : kept(j)})
        IN  /\ Len(Queued) = pos(Len(lines))
            /\ \A k \in 1..Len(lines) :
                 kept(k) /\ ~from_slice(lines[k]).ok =>
                    /\ Queued[pos(k)] = [ok |-> FALSE, bytes |-> lines[k]]
                    /\ \A m \in (k + 1)..Len(lines) :
                         kept(m) => Queued[pos(m)] = from_slice(lines[m])

\* an undecodable line was followed by a line that arrived in two chunks and
\* decoded
ErrorsAreLocalWitness ==
    /\ ~finalized
    /\ nInputs >= 3
    /\ Len(Queued) = 2
    /\ ~Queued[1].ok
    /\ Queued[2].ok
    /\ Len(Queued[2].bytes) = 2

----------------------------------------------------------------------------
\* What an adapter has delivered

IsOutcome(r) == r.tag \in {"Ok", "JsonError"}

\* the values and content errors the adapter has returned, in order
Delivered == SelectSeq(results, IsOutcome)

MapResults(outcomes) == [k \in 1..Len(outcomes) |-> map_json_result(outcomes[k])]

\* the policy finalize() applies to the rest
RestPolicy ==
    IF engine.config.empty_line_handling = "ParseAlways"
    THEN "IgnoreEmpty"
    ELSE engine.config.empty_line_handling

\* the outcome of the rest at end of input, none if the rest is not decoded
RestOutcome ==
    IF engine.config.parse_rest THEN parse_line(Rest(fed), RestPolicy) ELSE <<>>

\* C2: what an adapter has delivered, followed by what the engine still holds
\* queued, is the outcomes of the lines of the concatenated input in the
\* order of their newlines, with the outcome of the final flush last.
Ordering ==
    Delivered \o MapResults(engine.out_queue) =
        MapResults(LineOutcomes(fed, engine.config.empty_line_handling)
                       \o (IF finalized THEN RestOutcome ELSE <<>>))

\* the pull adapter delivered two lines of one chunk, then the rest, then
\* reported exhaustion
OrderingWitness ==
    /\ driver = "iter"
    /\ finalized
    /\ ret = NoneResult
    /\ Len(Delivered) = 3
    /\ Delivered[3] = OkResult([bytes |-> <<49>>])
    /\ Rest(fed) = <<49>>

----------------------------------------------------------------------------
\* the chunks of the first n items of a source, concatenated
RECURSIVE ChunkBytes(_, _)
ChunkBytes(items, n) ==
    IF n = 0 THEN <<>>
    ELSE ChunkBytes(items, n - 1) \o items[n].bytes

RemoveAt(seq, i) == SubSeq(seq, 1, i - 1) \o SubSeq(seq, i + 1, Len(seq))

\* C4: a call of next() that meets an upstream error returns one input error
\* carrying the upstream's error value, leaves the output queue as it was and
\* the accumulation buffer holding the unterminated bytes of what it held
\* and the chunks pulled before the error; the call after it returns what it
\* would return, and leaves the engine it would leave, had the source not
\* contained the error.
InputErrorPreservesEngine ==
    [][ret'.tag = "InputError" =>
          LET items == bytes_iterator.iter
          IN  /\ ~bytes_iterator.done
              /\ items[asked'].tag = "Err"
              /\ ret' = InputError(items[asked'].error)
              /\ results' = Append(results, ret')
              /\ engine'.out_queue = engine.out_queue
              /\ engine'.in_queue =
                    Rest(engine.in_queue \o ChunkBytes(items, asked' - 1))
              /\ LET after == next(Self')
                     without == next([Self EXCEPT
                                        !.bytes_iterator.iter = RemoveAt(@, asked')])
                 IN  /\ after.ret = without.ret
                     /\ after.self.engine = without.self.engine
       ]_vars

\* the start of a line, then an upstream error, then the end of the line: the
\* error was returned first and the line decoded from both chunks after it
InputErrorWitness ==
    /\ driver = "iter"
    /\ src = <<OkItem(<<49>>), ErrItem(2), OkItem(<<NEW_LINE>>)>>
    /\ results = <<InputError(2), OkResult([bytes |-> <<49>>])>>

----------------------------------------------------------------------------
\* C5: once the upstream iterator has reported exhaustion the pull adapter
\* does not query it again, and every call after the one that met the
\* exhaustion (which returns the final-flush outcome, if any) returns
\* exhaustion, whatever the upstream would yield if it were queried.
ExhaustionLatched ==
    [][bytes_iterator.done =>
          /\ asked' = 0
          /\ bytes_iterator' = bytes_iterator
          /\ engine' = engine
          /\ ret' = NoneResult
       ]_vars

\* the upstream reported exhaustion with items still to yield; the adapter
\* returned the final-flush outcome and then exhaustion twice
ExhaustionLatchedWitness ==
    /\ driver = "iter"
    /\ bytes_iterator.done
    /\ bytes_iterator.iter # <<>>
    /\ Len(results) = 3
    /\ IsOutcome(results[1])
    /\ results[2] = NoneResult
    /\ results[3] = NoneResult

----------------------------------------------------------------------------
\* the results of calling next() on a pull adapter until it reports
\* exhaustion (or n calls were made)
RECURSIVE IterResults(_, _)
IterResults(self, n) ==
    IF n = 0 THEN <<>>
    ELSE LET r == next(self)
         IN  IF r.ret = NoneResult
             THEN <<r.ret>>
             ELSE <<r.ret>> \o IterResults(r.self, n - 1)

\* a sequence of results up to its first report of exhaustion
UpToNone(seq) ==
    IF \E i \in 1..Len(seq) : seq[i] = NoneResult
    THEN SubSeq(seq, 1, CHOOSE i \in 1..Len(seq) :
                            /\ seq[i] = NoneResult
                            /\ \A j \in 1..(i - 1) : seq[j] # NoneResult)
    ELSE seq

\* C6: the results the suspend adapter has yielded, up to its first report of
\* exhaustion, are the first results the pull adapter yields for the same
\* configuration and the same upstream items.
StreamMatchesIter ==
    LET pull == IterResults([Self EXCEPT
                                !.engine = with_config(engine.config),
                                !.bytes_iterator = [iter |-> src, done |-> FALSE],
                                !.fed = <<>>],
                            MaxCalls)
        mine == UpToNone(results)
    IN  /\ Len(mine) <= Len(pull)
        /\ mine = SubSeq(pull, 1, Len(mine))

----------------------------------------------------------------------------
\* C7: when the suspend adapter, with the rest-handling flag enabled, reports
\* exhaustion for the first time and the bytes after the last newline are not
\* skipped by the policy, it has delivered one outcome more than there are
\* decoded lines, and that last outcome is the decoded rest.
StreamFlushesRest ==
    (/\ engine.config.parse_rest
     /\ results # <<>>
     /\ results = UpToNone(results)
     /\ results[Len(results)] = NoneResult
     /\ Rest(fed) # <<>>
     /\ RestOutcome # <<>>)
        => /\ Len(Delivered) =
                Len(LineOutcomes(fed, engine.config.empty_line_handling)) + 1
           /\ Delivered[Len(Delivered)] = map_json_result(RestOutcome[1])

----------------------------------------------------------------------------
\* C8: after poll_next has returned exhaustion, a later poll returns
\* exhaustion, does not poll the upstream stream and leaves the engine as it
\* is.
StreamExhaustionLatched ==
    [][ret = NoneResult =>
          /\ ret' = NoneResult
          /\ asked' = 0
          /\ engine' = engine
       ]_vars

----------------------------------------------------------------------------
\* the call met the end of the upstream iterator
MeetsEnd == ~bytes_iterator.done /\ bytes_iterator'.done

\* C9 as stated: when the pull adapter meets the end of upstream with
\* unterminated bytes buffered, it returns one outcome for them if the
\* rest-handling flag is enabled and exhaustion if it is disabled, and
\* exhaustion on the call after.
RestYieldsOneOutcome ==
    [][MeetsEnd /\ Rest(fed') # <<>> =>
          /\ ret' = IF engine.config.parse_rest
                    THEN map_json_result(from_slice(Rest(fed')))
                    ELSE NoneResult
          /\ next(Self').ret = NoneResult
       ]_vars

\* C9 as amended: with the flag enabled it returns one outcome for them
\* unless the empty-line policy, with ParseAlways taken as IgnoreEmpty, skips
\* them; it returns exhaustion if they are skipped or the flag is disabled,
\* and exhaustion on the call after.
RestYieldsOneOutcomeUnlessSkipped ==
    [][MeetsEnd /\ Rest(fed') # <<>> =>
          /\ ret' = IF engine.config.parse_rest
                        /\ parse_line(Rest(fed'), RestPolicy) # <<>>
                    THEN map_json_result(from_slice(Rest(fed')))
                    ELSE NoneResult
          /\ next(Self').ret = NoneResult
       ]_vars

\* with the flag enabled the adapter returned a line, then the outcome of the
\* unterminated bytes after it, then exhaustion
RestYieldsOneOutcomeWitness ==
    /\ driver = "iter"
    /\ engine.config.parse_rest
    /\ finalized
    /\ Rest(fed) # <<>>
    /\ Len(results) = 3
    /\ IsOutcome(results[1])
    /\ results[2] = map_json_result(from_slice(Rest(fed)))
    /\ results[3] = NoneResult

----------------------------------------------------------------------------
\* C10: no adapter queries upstream while the output queue holds an outcome;
\* a get-next call that finds the queue non-empty returns its oldest outcome,
\* removes it and makes no upstream query.
LazyUpstream ==
    /\ [](~eager)
    /\ [][engine.out_queue # <<>> =>
            /\ asked' = 0
            /\ ret' = map_json_result(Head(engine.out_queue))
            /\ engine' = [engine EXCEPT !.out_queue = Tail(@)]
            /\ bytes_iterator' = bytes_iterator
            /\ bytes_stream' = bytes_stream
         ]_vars

\* one chunk gave two outcomes; the second call returned the second of them
\* without a query, with upstream items left to pull
LazyUpstreamWitness ==
    /\ Len(results) = 2
    /\ IsOutcome(results[1])
    /\ IsOutcome(ret)
    /\ asked = 0
    /\ bytes_iterator.iter # <<>> \/ bytes_stream # <<>>

----------------------------------------------------------------------------
\* Steps of the bare engine, told apart by the history they leave

\* a step of input()
InputStep == driver = "none" /\ nInputs' = nInputs + 1

\* a step of finalize()
FinalizeStep == driver = "none" /\ finalized' /\ nInputs' = nInputs /\ popped' = popped

\* a step of pop() that returned an outcome
PopStep == driver = "none" /\ popped' # popped

----------------------------------------------------------------------------
\* C11: in the state a finalize() call leaves, whatever the engine held and
\* whatever its configuration, a second finalize() changes neither the output
\* queue nor the accumulation buffer.
FinalizeIdempotent ==
    [][FinalizeStep =>
          /\ finalize(engine').out_queue = engine'.out_queue
          /\ finalize(engine').in_queue = engine'.in_queue
       ]_vars

\* finalize() queued the outcome of a rest of two bytes and emptied the buffer
FinalizeIdempotentWitness ==
    /\ driver = "none"
    /\ finalized
    /\ engine.config.parse_rest
    /\ Rest(fed) = <<49, 49>>
    /\ engine.in_queue = <<>>
    /\ Queued = LineOutcomes(fed, engine.config.empty_line_handling)
                    \o <<from_slice(Rest(fed))>>

----------------------------------------------------------------------------
\* C12 as stated: with the rest-handling flag false a finalize() call changes
\* neither the output queue nor the accumulation buffer.
FinalizeNoOpWithoutFlag ==
    [][FinalizeStep /\ ~engine.config.parse_rest =>
          /\ engine'.out_queue = engine.out_queue
          /\ engine'.in_queue = engine.in_queue
       ]_vars

\* C12 as amended: with the rest-handling flag false a finalize() call leaves
\* the output queue and the configuration as they are and empties the
\* accumulation buffer.
FinalizeDiscardsRestWithoutFlag ==
    [][FinalizeStep /\ ~engine.config.parse_rest =>
          engine' = [engine EXCEPT !.in_queue = <<>>]
       ]_vars

\* with the flag false finalize() was called on a buffer of two bytes after a
\* line: the line's outcome is all that was queued and the buffer is empty
FinalizeDiscardsRestWitness ==
    /\ driver = "none"
    /\ finalized
    /\ ~engine.config.parse_rest
    /\ fed = <<49, NEW_LINE, 49, 49>>
    /\ engine.in_queue = <<>>
    /\ Queued = <<from_slice(<<49>>)>>

----------------------------------------------------------------------------
\* the decode results of a sequence of lines, one for each
Decoded(lines) == [k \in 1..Len(lines) |-> from_slice(lines[k])]

\* a candidate that is zero-length or the single byte \r
EmptyOrCr(bytes) ==
    Len(bytes) = 0 \/ (Len(bytes) = 1 /\ bytes[1] = CARRIAGE_RETURN)

NotEmptyOrCr(bytes) == ~EmptyOrCr(bytes)

\* C13: under IgnoreEmpty the outcomes queued by input() are the decode
\* results of exactly the newline-terminated lines that are neither
\* zero-length nor the single byte \r, in order (a line of spaces is decoded);
\* under ParseAlways they are the decode results of all the lines, the empty
\* and the \r-only ones included.
IgnoreEmptySkipsEmptyOrCr ==
    ~finalized =>
        /\ engine.config.empty_line_handling = "IgnoreEmpty" =>
              Queued = Decoded(SelectSeq(Lines(fed), NotEmptyOrCr))
        /\ engine.config.empty_line_handling = "ParseAlways" =>
              Queued = Decoded(Lines(fed))

\* under IgnoreEmpty a line of \r gave no outcome and the line of one space
\* after it gave a content error
IgnoreEmptyWitness ==
    /\ driver = "none"
    /\ ~finalized
    /\ engine.config.empty_line_handling = "IgnoreEmpty"
    /\ fed = <<CARRIAGE_RETURN, NEW_LINE, 32, NEW_LINE>>
    /\ Queued = <<[ok |-> FALSE, bytes |-> <<32>>]>>

----------------------------------------------------------------------------
\* a candidate that is valid text made of whitespace characters only
BlankText(bytes) ==
    /\ \A i \in 1..Len(bytes) : bytes[i] < 128
    /\ \A i \in 1..Len(bytes) : is_whitespace(bytes[i])

NotBlankText(bytes) == ~BlankText(bytes)

\* C14: under IgnoreBlank the outcomes queued by input() are the decode
\* results of exactly the lines that are not valid text of whitespace only,
\* in order: the zero-length line is skipped, and a line that is not valid
\* text is decoded.
IgnoreBlankSkipsBlankText ==
    ~finalized /\ engine.config.empty_line_handling = "IgnoreBlank" =>
        /\ Queued = Decoded(SelectSeq(Lines(fed), NotBlankText))
        /\ \A k \in 1..Len(Lines(fed)) :
              ~from_utf8_is_ok(Lines(fed)[k]) =>
                  \E q \in 1..Len(Queued) : Queued[q].bytes = Lines(fed)[k]

\* under IgnoreBlank a line of one space gave no outcome and the line of the
\* byte 0xFF after it gave a content error
IgnoreBlankWitness ==
    /\ driver = "none"
    /\ ~finalized
    /\ engine.config.empty_line_handling = "IgnoreBlank"
    /\ fed = <<32, NEW_LINE, 255, NEW_LINE>>
    /\ Queued = <<[ok |-> FALSE, bytes |-> <<255>>]>>

----------------------------------------------------------------------------
\* C15: under ParseAlways, as long as finalize() has not been called, the
\* number of outcomes queued so far (popped or not) is the number of newline
\* bytes fed so far.
ParseAlwaysNeverSkips ==
    ~finalized /\ engine.config.empty_line_handling = "ParseAlways" =>
        Len(Queued) = Cardinality(Newlines(fed))

\* under ParseAlways an empty line, a \r-only line and another empty line
\* gave three outcomes
ParseAlwaysWitness ==
    /\ driver = "none"
    /\ ~finalized
    /\ engine.config.empty_line_handling = "ParseAlways"
    /\ fed = <<NEW_LINE, CARRIAGE_RETURN, NEW_LINE, NEW_LINE>>
    /\ Len(Queued) = 3

----------------------------------------------------------------------------
\* C16: finalize() on an empty accumulation buffer queues nothing, under
\* every policy (ParseAlways included) and every value of the rest-handling
\* flag: in every state with an empty buffer finalize() leaves the engine as
\* it is, and a finalize() step taken with an empty buffer (no input at all,
\* or input that ended on a newline) leaves the output queue as it was.
FinalizeSkipsEmptyBuffer ==
    /\ [](engine.in_queue = <<>> => finalize(engine) = engine)
    /\ [][FinalizeStep /\ engine.in_queue = <<>> =>
            engine'.out_queue = engine.out_queue
         ]_vars

\* under ParseAlways with the flag enabled the input ended on a newline and
\* finalize() was called: the line's outcome is the only one
FinalizeSkipsEmptyBufferWitness ==
    /\ driver = "none"
    /\ finalized
    /\ engine.config = [empty_line_handling |-> "ParseAlways", parse_rest |-> TRUE]
    /\ fed = <<49, NEW_LINE>>
    /\ engine.in_queue = <<>>
    /\ Queued = <<from_slice(<<49>>)>>

----------------------------------------------------------------------------
\* the buffer is one that finalize() does not decode under the engine's
\* policy (finalize() applies IgnoreEmpty where ParseAlways is configured)
RestSkipped(bytes) ==
    IF engine.config.empty_line_handling = "IgnoreBlank"
    THEN BlankText(bytes)
    ELSE EmptyOrCr(bytes)

----------------------------------------------------------------------------
\* C18: pop() on an empty queue returns none and leaves the engine as it is;
\* a pop() that returns an outcome returns the oldest one queued and removes
\* it, leaving the rest of the queue in order; in every case pop() leaves
\* the accumulation buffer and the configuration as they are.
PopIsFifo ==
    /\ [](engine.out_queue = <<>> => pop(engine) = [ret |-> <<>>, engine |-> engine])
    /\ [](pop(engine).engine.in_queue = engine.in_queue)
    /\ [][PopStep =>
            /\ popped' = Append(popped, Head(engine.out_queue))
            /\ engine' = [engine EXCEPT !.out_queue = Tail(@)]
         ]_vars

\* a content error and a value were queued in that order, with a byte
\* buffered after them: two pops returned the error and then the value, one
\* more pop on the empty queue returned nothing, and the byte is still buffered
PopIsFifoWitness ==
    /\ driver = "none"
    /\ ~finalized
    /\ fed = <<NEW_LINE, 49, NEW_LINE, 32>>
    /\ popped = <<from_slice(<<>>), from_slice(<<49>>)>>
    /\ engine.out_queue = <<>>
    /\ pop(engine).ret = <<>>
    /\ engine.in_queue = <<32>>

----------------------------------------------------------------------------
\* the chunk passed to the input() call of this step
InputChunk == SubSeq(fed', Len(fed) + 1, Len(fed'))

\* C19: an input() call whose chunk holds no newline byte leaves the output
\* queue as it was and appends the whole chunk to the accumulation buffer;
\* as long as no newline has been fed (and finalize() not called) no outcome
\* has been queued and the buffer holds every byte fed.
NoOutcomeBeforeNewline ==
    /\ [](~finalized /\ Newlines(fed) = {} =>
             Queued = <<>> /\ engine.in_queue = fed)
    /\ [][InputStep /\ Newlines(InputChunk) = {} =>
            /\ engine'.out_queue = engine.out_queue
            /\ engine'.in_queue = engine.in_queue \o InputChunk
         ]_vars

\* three chunks without a newline were fed: nothing was queued and the
\* buffer holds the four bytes
NoOutcomeBeforeNewlineWitness ==
    /\ driver = "none"
    /\ ~finalized
    /\ nInputs >= 3
    /\ fed = <<49, 32, 49, 49>>
    /\ Queued = <<>>
    /\ engine.in_queue = fed

----------------------------------------------------------------------------
\* C20: the default configuration is (ParseAlways, no rest handling); from
\* the configuration an engine was built with, with_empty_line_handling
\* gives a copy that differs in the empty-line policy only and
\* with_parse_rest a copy that differs in the rest-handling flag only; the
\* two derivations commute; and the configuration the engine holds never
\* changes.
ConfigDerivation ==
    /\ [](LET c == engine.config
          IN  /\ default_config =
                    [empty_line_handling |-> "ParseAlways", parse_rest |-> FALSE]
              /\ c \in NdjsonConfig
              /\ \A e \in EmptyLineHandling, p \in BOOLEAN :
                    /\ with_empty_line_handling(c, e) =
                          [c EXCEPT !.empty_line_handling = e]
                    /\ with_parse_rest(c, p) = [c EXCEPT !.parse_rest = p]
                    /\ with_parse_rest(with_empty_line_handling(c, e), p) =
                          with_empty_line_handling(with_parse_rest(c, p), e))
    /\ [][engine'.config = engine.config]_vars

\* an engine built with the configuration derived from the default on both
\* axes has taken input and been finalized, and holds that configuration
ConfigDerivationWitness ==
    /\ driver = "none"
    /\ engine.config =
          with_empty_line_handling(with_parse_rest(default_config, TRUE), "IgnoreBlank")
    /\ engine.config = [empty_line_handling |-> "IgnoreBlank", parse_rest |-> TRUE]
    /\ fed # <<>>
    /\ finalized

----------------------------------------------------------------------------
\* the chunks of an infallible source, each wrapped as a success
WrappedOk(items) ==
    [k \in 1..Len(items) |->
        IF items[k] = NoneItem THEN NoneItem ELSE OkItem(items[k].bytes)]

\* the results of n calls of FallibleNdjsonIter::next
RECURSIVE IterCalls(_, _)
IterCalls(self, n) ==
    IF n = 0 THEN <<>>
    ELSE LET r == next(self)
         IN  <<r.ret>> \o IterCalls(r.self, n - 1)

\* the results of n polls of FallibleNdjsonStream::poll_next that find the
\* upstream ready
RECURSIVE PollCalls(_, _)
PollCalls(self, n) ==
    IF n = 0 THEN <<>>
    ELSE LET r == poll_next(self, Len(self.bytes_stream) + 1)
         IN  <<r.ret>> \o PollCalls(r.self, n - 1)

\* a result of a fallible adapter as the adapter over an infallible upstream
\* yields it: the value, or the content error taken out of its wrapper
Unwrapped(r) ==
    CASE r.tag = "Ok" -> r
      [] r.tag = "JsonError" -> [tag |-> "Err", bytes |-> r.bytes, error |-> 0]
      [] OTHER -> r

\* C21: the results NdjsonIter (NdjsonStream) has yielded are values,
\* content errors and reports of exhaustion only, never an input error, and
\* they are the results FallibleNdjsonIter (FallibleNdjsonStream) yields for
\* the same configuration and the same chunks each wrapped as a success,
\* with each content error taken out of its wrapper.
InfallibleMatchesFallible ==
    driver \in {"plain_iter", "plain_stream"} =>
        LET fresh == [Self EXCEPT !.engine = with_config(engine.config),
                                  !.fed = <<>>,
                                  !.finalized = FALSE,
                                  !.eager = FALSE]
            fallible ==
                IF driver = "plain_iter"
                THEN IterCalls([fresh EXCEPT
                                  !.bytes_iterator =
                                      [iter |-> WrappedOk(src), done |-> FALSE]],
                               Len(results))
                ELSE PollCalls([fresh EXCEPT !.bytes_stream = WrappedOk(src)],
                               Len(results))
        IN  /\ \A k \in 1..Len(results) : results[k].tag \in {"Ok", "Err", "None"}
            /\ ret.tag \notin {"InputError", "Unreachable"}
            /\ results = [k \in 1..Len(results) |-> Unwrapped(fallible[k])]

\* NdjsonIter yielded a value, then a content error, then exhaustion
InfallibleMatchesFallibleWitness ==
    /\ driver = "plain_iter"
    /\ Len(results) = 3
    /\ results[1].tag = "Ok"
    /\ results[2].tag = "Err"
    /\ results[3] = NoneResult

----------------------------------------------------------------------------
\* C22: in every state the engine reaches by input(), finalize() and pop()
\* calls in any order, the accumulation buffer holds no newline byte.
BufferHasNoNewline == Newlines(engine.in_queue) = {}

\* after a line was completed and popped and finalize() was called, two more
\* bytes were fed and are buffered
BufferHasNoNewlineWitness ==
    /\ driver = "none"
    /\ finalized
    /\ fed = <<49, NEW_LINE, 32, 49>>
    /\ popped # <<>>
    /\ engine.in_queue = <<32, 49>>

----------------------------------------------------------------------------
\* C23: an input() call leaves in the accumulation buffer the bytes after the
\* last newline of the previous buffer followed by the chunk: the buffer is
\* empty when the chunk ends with a newline, and no byte of a completed line
\* stays in it.
InputKeepsOnlyRest ==
    [][InputStep =>
          /\ engine'.in_queue = Rest(engine.in_queue \o InputChunk)
          /\ (InputChunk # <<>> /\ InputChunk[Len(InputChunk)] = NEW_LINE) =>
                engine'.in_queue = <<>>
       ]_vars

\* two bytes were buffered, then a chunk of a newline and a space arrived:
\* the line was completed and the buffer holds the space only
InputKeepsOnlyRestWitness ==
    /\ driver = "none"
    /\ ~finalized
    /\ nInputs = 2
    /\ fed = <<49, 49, NEW_LINE, 32>>
    /\ Len(Queued) = 1
    /\ engine.in_queue = <<32>>

----------------------------------------------------------------------------
\* C24: in every reachable state, under every configuration and whatever the
\* buffer holds, finalize() leaves the accumulation buffer empty; once
\* finalize() has been called the buffer holds only bytes fed after it.
FinalizeEmptiesBuffer ==
    /\ finalize(engine).in_queue = <<>>
    /\ finalized /\ nInputs = 0 => engine.in_queue = <<>>
    /\ finalized => \E n \in 0..Len(fed) :
                       engine.in_queue = Rest(SubSeq(fed, n + 1, Len(fed)))

\* finalize() was called with the flag enabled on a buffer of a \r, which
\* IgnoreEmpty skips: nothing was queued and the buffer is empty
FinalizeEmptiesBufferWitness ==
    /\ driver = "none"
    /\ finalized
    /\ engine.config = [empty_line_handling |-> "IgnoreEmpty", parse_rest |-> TRUE]
    /\ fed = <<CARRIAGE_RETURN>>
    /\ Queued = <<>>
    /\ engine.in_queue = <<>>

----------------------------------------------------------------------------
\* the engine's policy does not skip the candidate
Kept(bytes) == parse_line(bytes, engine.config.empty_line_handling) # <<>>

\* C25: the bytes each outcome was decoded from are the bytes between the
\* previous newline (or the start of input) and the line's newline, whole:
\* a trailing \r and the whitespace around the content are included and the
\* newline is not, however the line was cut into chunks.
DecoderGetsWholeLine ==
    ~finalized =>
        /\ [k \in 1..Len(Queued) |-> Queued[k].bytes] = SelectSeq(Lines(fed), Kept)
        /\ \A k \in 1..Len(Queued) : NEW_LINE \notin
              {Queued[k].bytes[i] : i \in 1..Len(Queued[k].bytes)}

\* the line " 1\r" arrived in two chunks or more and was decoded from its
\* three bytes
DecoderGetsWholeLineWitness ==
    /\ driver = "none"
    /\ ~finalized
    /\ nInputs >= 2
    /\ fed = <<32, 49, CARRIAGE_RETURN, NEW_LINE>>
    /\ Queued = <<[ok |-> TRUE, bytes |-> <<32, 49, CARRIAGE_RETURN>>]>>

----------------------------------------------------------------------------
IsPrefix(s, t) == Len(s) <= Len(t) /\ s = SubSeq(t, 1, Len(s))

\* C26: an input() call and a finalize() call leave the outcomes that were
\* queued at the head of the queue, in the same order; input() adds at most
\* one outcome for each newline byte of its chunk and finalize() at most one.
QueueOnlyGrows ==
    [][/\ InputStep =>
            /\ IsPrefix(engine.out_queue, engine'.out_queue)
            /\ Len(engine'.out_queue) - Len(engine.out_queue)
                  <= Cardinality(Newlines(InputChunk))
       /\ FinalizeStep =>
            /\ IsPrefix(engine.out_queue, engine'.out_queue)
            /\ Len(engine'.out_queue) - Len(engine.out_queue) <= 1
      ]_vars

\* a chunk of two newlines added two outcomes, a chunk of one byte none, and
\* finalize() a third outcome behind them
QueueOnlyGrowsWitness ==
    /\ driver = "none"
    /\ finalized
    /\ nInputs = 2
    /\ fed = <<NEW_LINE, NEW_LINE, 49>>
    /\ popped = <<>>
    /\ engine.out_queue = <<from_slice(<<>>), from_slice(<<>>), from_slice(<<49>>)>>

----------------------------------------------------------------------------
\* the number of items the suspend adapter has taken from its upstream
Taken == Len(src) - Len(bytes_stream)

\* C27: a poll of the suspend adapter that finds the output queue empty and
\* the upstream pending returns Pending, leaves the engine as it is and polls
\* the upstream that once; a poll that finds an outcome queued never returns
\* Pending; and a poll that returned Pending yielded no result, found and
\* left the queue empty, and its last upstream poll is the pending one: every
\* poll before it took a chunk.
PendingOnlyWhenStarved ==
    /\ [](driver = "stream" /\ engine.out_queue = <<>> =>
             LET r == poll_next(Self, 0)
             IN  /\ r.ret = Pending
                 /\ r.self.engine = engine
                 /\ r.self.bytes_stream = bytes_stream
                 /\ r.self.asked = 1)
    /\ [](driver = "stream" /\ engine.out_queue # <<>> =>
             \A ready \in 0..(Len(bytes_stream) + 1) :
                 poll_next(Self, ready).ret # Pending)
    /\ [][ret' = Pending =>
            /\ results' = results
            /\ engine.out_queue = <<>>
            /\ engine'.out_queue = <<>>
            /\ asked' = (Len(bytes_stream) - Len(bytes_stream')) + 1
            /\ \A k \in 1..(asked' - 1) : bytes_stream[k].tag = "Ok"
         ]_vars

\* the first poll took a chunk of one byte, found the upstream pending on
\* its second upstream poll and returned Pending with the byte buffered
PendingWitness ==
    /\ driver = "stream"
    /\ ret = Pending
    /\ asked = 2
    /\ results = <<>>
    /\ fed = <<49>>
    /\ engine.in_queue = <<49>>
    /\ engine.out_queue = <<>>

----------------------------------------------------------------------------
\* C28: whatever polls of the upstream found it pending, the results the
\* suspend adapter has yielded are the results it yields for the same
\* upstream when no poll finds it pending; every chunk taken from the
\* upstream has been fed to the engine whole, and the unterminated bytes fed
\* so far are in the accumulation buffer.
PendingDoesNotAffectResults ==
    driver = "stream" =>
        /\ results = PollCalls([Self EXCEPT !.engine = with_config(engine.config),
                                            !.bytes_stream = src,
                                            !.fed = <<>>,
                                            !.eager = FALSE],
                               Len(results))
        /\ fed = ChunkBytes(src, Taken)
        /\ engine.in_queue = Rest(fed)

\* after a first result, a poll took a chunk of one byte and ended in
\* Pending: the byte is in the buffer
PendingDoesNotAffectResultsWitness ==
    /\ driver = "stream"
    /\ ret = Pending
    /\ asked = 2
    /\ Len(results) = 1
    /\ IsOutcome(results[1])
    /\ engine.in_queue = <<49>>

----------------------------------------------------------------------------
\* C29: no adapter has queried its upstream while an outcome was queued; when
\* a call has returned an input error or exhaustion the output queue is
\* empty, and when it has returned an input error every outcome of the lines
\* fed so far has been yielded before it.
QueueEmptyWhenUpstreamAsked ==
    /\ ~eager
    /\ ret.tag \in {"InputError", "None"} => engine.out_queue = <<>>
    /\ ret.tag = "InputError" =>
          /\ results[Len(results)] = ret
          /\ Delivered = MapResults(LineOutcomes(fed, engine.config.empty_line_handling))

\* a chunk of two empty lines gave two content errors, both yielded before
\* the input error of the item after it
QueueEmptyWhenUpstreamAskedWitness ==
    /\ Len(results) = 3
    /\ results[1].tag = "JsonError"
    /\ results[2].tag = "JsonError"
    /\ results[3] = InputError(1)
    /\ ret = InputError(1)
    /\ fed = <<NEW_LINE, NEW_LINE>>

----------------------------------------------------------------------------
\* the position of the first end of input in a source (one past its end if
\* the source has none)
FirstNone(items) ==
    IF \E i \in 1..Len(items) : items[i] = NoneItem
    THEN CHOOSE i \in 1..Len(items) :
            /\ items[i] = NoneItem
            /\ \A j \in 1..(i - 1) : items[j] # NoneItem
    ELSE Len(items) + 1

\* C30: when the pull adapter has returned exhaustion, the upstream iterator
\* has reported exhaustion: every item before its first end of input has
\* been taken, however many chunks in a row gave no outcome.
ExhaustionOnlyAfterUpstream ==
    driver = "iter" /\ ret = NoneResult =>
        /\ bytes_iterator.done
        /\ finalized
        /\ LET taken == Len(src) - Len(bytes_iterator.iter)
           IN  /\ taken = IF FirstNone(src) <= Len(src)
                          THEN FirstNone(src)
                          ELSE Len(src)
               /\ fed = ChunkBytes(src, taken)

\* three chunks without a newline gave no outcome: the first call took all
\* three, met the end of the upstream and returned exhaustion
ExhaustionOnlyAfterUpstreamWitness ==
    /\ driver = "iter"
    /\ Len(src) = 3
    /\ \A k \in 1..3 : src[k].tag = "Ok" /\ Newlines(src[k].bytes) = {}
    /\ src[1].bytes # <<>>
    /\ ~engine.config.parse_rest
    /\ results = <<NoneResult>>
    /\ asked = 4

----------------------------------------------------------------------------
\* the number of items the pull adapter has taken from its upstream
IterTaken == Len(src) - Len(bytes_iterator.iter)

\* the number of items a fused upstream gives: those before the first end of
\* input and that end of input itself, if the source has one
UpToFirstNone(items) ==
    IF FirstNone(items) <= Len(items) THEN FirstNone(items) ELSE Len(items)

\* C31: in the pull adapter finalize() has been called exactly when the
\* upstream has reported exhaustion; from then on no call queries the
\* upstream or feeds the engine, so the bytes fed are those of all chunks
\* before the first end of input, whatever the source would give after it.
InputNeverAfterFinalize ==
    /\ [](driver = "iter" =>
            /\ finalized <=> bytes_iterator.done
            /\ finalized =>
                  /\ IterTaken = UpToFirstNone(src)
                  /\ fed = ChunkBytes(src, UpToFirstNone(src))
                  /\ engine.in_queue = <<>>)
    /\ [][driver = "iter" /\ finalized =>
            /\ finalized'
            /\ asked' = 0
            /\ fed' = fed
            /\ bytes_iterator' = bytes_iterator
         ]_vars

\* the source gave a byte, then an end of input, and would give a newline
\* after it: three calls were made and the byte is all that was fed
InputNeverAfterFinalizeWitness ==
    /\ driver = "iter"
    /\ src = <<OkItem(<<49>>), NoneItem, OkItem(<<NEW_LINE>>)>>
    /\ finalized
    /\ Len(results) = 3
    /\ fed = <<49>>
    /\ bytes_iterator.iter = <<OkItem(<<NEW_LINE>>)>>

----------------------------------------------------------------------------
----------------------------------------------------------------------------
IsInputError(r) == r.tag = "InputError"

\* the upstream errors among the first n items of a source, as input errors
RECURSIVE ErrorsOf(_, _)
ErrorsOf(items, n) ==
    IF n = 0 THEN <<>>
    ELSE ErrorsOf(items, n - 1) \o
            (IF items[n].tag = "Err" THEN <<InputError(items[n].error)>> ELSE <<>>)

\* the outcomes one engine queues when it is fed, in one input() call, the
\* chunks the upstream gives before its end of input and is then finalized
OneEngineOutcomes ==
    finalize(input(with_config(engine.config),
                   ChunkBytes(src, UpToFirstNone(src)))).out_queue

\* C33: the values and content errors the pull adapter has yielded are the
\* first outcomes of one engine fed the concatenation of all chunks and
\* finalized once, in the same order, and all of them once the adapter has
\* reported exhaustion; the input errors it has yielded are the errors of
\* the upstream items taken so far, each once and in order; and it has
\* yielded nothing else before exhaustion.
IterRefinesEngine ==
    driver = "iter" =>
        /\ IsPrefix(Delivered, MapResults(OneEngineOutcomes))
        /\ (\E k \in 1..Len(results) : results[k] = NoneResult) =>
              Delivered = MapResults(OneEngineOutcomes)
        /\ SelectSeq(results, IsInputError) = ErrorsOf(src, IterTaken)
        /\ \A k \in 1..Len(results) :
              \/ IsOutcome(results[k])
              \/ IsInputError(results[k])
              \/ results[k] = NoneResult /\ bytes_iterator.done

\* a line, an upstream error and an unterminated byte: the adapter yielded
\* the line's value, the input error, the value of the rest and exhaustion
IterRefinesEngineWitness ==
    /\ driver = "iter"
    /\ engine.config.parse_rest
    /\ src = <<OkItem(<<49, NEW_LINE>>), ErrItem(2), OkItem(<<49>>)>>
    /\ results = <<OkResult([bytes |-> <<49>>]), InputError(2),
                   OkResult([bytes |-> <<49>>]), NoneResult>>

----------------------------------------------------------------------------
\* the item at position k of the source the call started with gives the call
\* something to return: an outcome once the chunks up to it are fed, an
\* error, or the end of input
Productive(items, k) ==
    \/ items[k].tag \in {"Err", "None"}
    \/ input(engine, ChunkBytes(items, k)).out_queue # <<>>

\* C34: a consumer that keeps calling next() on a pull adapter over a finite
\* upstream gets exhaustion after finitely many results, at most one for each
\* newline byte and each error of the upstream and one for the rest, and
\* exhaustion from then on; a call that queries the upstream takes items up
\* to and including the first one that gives it an outcome, is an error or is
\* the end of input, and none after it.
IterTerminates ==
    /\ <>[](ret = NoneResult)
    /\ [](Len(UpToNone(results)) <=
             Cardinality(Newlines(ChunkBytes(src, Len(src))))
               + Len(ErrorsOf(src, Len(src))) + 2)
    /\ [][asked' > 0 =>
            LET items == bytes_iterator.iter
                last == IF asked' <= Len(items) THEN asked' ELSE Len(items)
            IN  /\ engine.out_queue = <<>>
                /\ asked' <= Len(items) + 1
                /\ bytes_iterator'.iter = SubSeq(items, last + 1, Len(items))
                /\ \A k \in 1..(asked' - 1) :
                      k <= Len(items) /\ ~Productive(items, k)
                /\ asked' <= Len(items) => Productive(items, asked')
         ]_vars

\* the line "1" came in three chunks, the second one empty: the first call
\* took all three and returned the value, the second met the end of the
\* upstream and returned exhaustion
IterTerminatesWitness ==
    /\ driver = "iter"
    /\ src = <<OkItem(<<49>>), OkItem(<<>>), OkItem(<<NEW_LINE>>)>>
    /\ results = <<OkResult([bytes |-> <<49>>]), NoneResult>>
    /\ bytes_iterator.done
    /\ asked = 1

====
